---- MODULE Spec2Model ----
(***************************************************************************)
(* Model of src/versioning.py: a content-addressed object store, a commit  *)
(* log and a HEAD pointer kept as files under dataset_repo/.               *)
(*                                                                         *)
(* Text is a sequence of one-character strings.  A file is modelled by the *)
(* text it holds.  sha256 is modelled as an injective tagging of the       *)
(* hashed text (collision resistance), so a hash is <<"sha256", text>>.    *)
(***************************************************************************)
EXTENDS Integers, Sequences, FiniteSets, TLC

\* ------------------------------------------------------------------ bounds
MaxLen == 4          \* longest raw text fed to preprocess_text on its own
MaxVersions == 3     \* create_version invocations in one behaviour
MaxTime == 2         \* distinct values datetime.now() can return
MaxOverlap == 2      \* create_version invocations in a run where they overlap

\* ------------------------------------------------------------- characters
UpperCase == {"A", "H", "W"}
Punctuation == {",", "!"}            \* neither \w nor \s
LineBreak == "\n"
Alphabet == {"A", "a", ",", "\n"}

None == <<>>                         \* Python None / JSON null

ConfigKeys == {"lowercase", "remove_punctuation", "remove_duplicates"}

\* every JSON object over the recognised keys with boolean values
AllConfigs ==
    UNION {[K -> BOOLEAN] : K \in SUBSET ConfigKeys}

RECURSIVE TextsOfLen(_)
TextsOfLen(n) ==
    IF n = 0 THEN {<<>>}
    ELSE {Append(t, c) : t \in TextsOfLen(n - 1), c \in Alphabet}

AllTexts == UNION {TextsOfLen(n) : n \in 0..MaxLen}

\* ---------------------------------------------------------- hash utilities
hash_content(content) == <<"sha256", content>>

\* ----------------------------------------------------------- preprocessing
\* config.get(key): a missing key gives None, which is falsy
config_get(config, key) ==
    IF key \in DOMAIN config THEN config[key] ELSE FALSE

lower_char(c) ==
    CASE c = "A" -> "a"
      [] c = "H" -> "h"
      [] c = "W" -> "w"
      [] OTHER -> c

\* str.lower()
RECURSIVE str_lower(_)
str_lower(text) ==
    IF text = <<>> THEN <<>>
    ELSE <<lower_char(Head(text))>> \o str_lower(Tail(text))

\* re.sub(r"[^\w\s]", "", text)
RECURSIVE re_sub_punct(_)
re_sub_punct(text) ==
    IF text = <<>> THEN <<>>
    ELSE IF Head(text) \in Punctuation THEN re_sub_punct(Tail(text))
    ELSE <<Head(text)>> \o re_sub_punct(Tail(text))

\* str.splitlines(): a line ends at each line break; the text after the last
\* break is a line only when it is not empty
RECURSIVE splitlines_loop(_, _, _)
splitlines_loop(rest, cur, acc) ==
    IF rest = <<>> THEN (IF cur = <<>> THEN acc ELSE Append(acc, cur))
    ELSE IF Head(rest) = LineBreak
         THEN splitlines_loop(Tail(rest), <<>>, Append(acc, cur))
         ELSE splitlines_loop(Tail(rest), Append(cur, Head(rest)), acc)

splitlines(text) == splitlines_loop(text, <<>>, <<>>)

\* list(dict.fromkeys(lines)): insertion-ordered keys, first occurrence kept
RECURSIVE fromkeys_loop(_, _)
fromkeys_loop(rest, keys) ==
    IF rest = <<>> THEN keys
    ELSE IF \E i \in 1..Len(keys) : keys[i] = Head(rest)
         THEN fromkeys_loop(Tail(rest), keys)
         ELSE fromkeys_loop(Tail(rest), Append(keys, Head(rest)))

dict_fromkeys(lines) == fromkeys_loop(lines, <<>>)

\* "\n".join(lines)
RECURSIVE join_loop(_, _)
join_loop(rest, out) ==
    IF rest = <<>> THEN out
    ELSE join_loop(Tail(rest), out \o <<LineBreak>> \o Head(rest))

str_join(lines) ==
    IF lines = <<>> THEN <<>> ELSE join_loop(Tail(lines), Head(lines))

\* mutant: duplicates are dropped before the text is lower-cased
preprocess_text_dedup_first(text, config) ==
    LET lines0 == splitlines(text)
        lines1 == IF config_get(config, "remove_duplicates")
                  THEN dict_fromkeys(lines0) ELSE lines0
        t0 == str_join(lines1)
        t1 == IF config_get(config, "lowercase") THEN str_lower(t0) ELSE t0
        t2 == IF config_get(config, "remove_punctuation")
              THEN re_sub_punct(t1) ELSE t1
    IN  str_join(splitlines(t2))

preprocess_text(text, config) ==
    LET t1 == IF config_get(config, "lowercase") THEN str_lower(text) ELSE text
        t2 == IF config_get(config, "remove_punctuation")
              THEN re_sub_punct(t1) ELSE t1
        lines == splitlines(t2)
        lines2 == IF config_get(config, "remove_duplicates")
                  THEN dict_fromkeys(lines) ELSE lines
    IN  str_join(lines2)

\* ------------------------------------------------------------ program state
VARIABLES
    objects,       \* OBJECTS_DIR: object hash -> text of the object file
    commits,       \* COMMITS_DIR: commit id -> text of <commit id>.json
    HEAD_FILE,     \* BASE_DIR / "HEAD": [exists, text]
    output_file,   \* the file checkout writes: [exists, text]
    pc,            \* per process: the statement it is about to execute
    local,         \* per process: its local variables and what it printed
    versions,      \* number of create_version invocations started
    clock,         \* the latest reading of datetime.now()
    created,       \* history: the create_version calls that returned, in order
    obj_writes     \* history: object hashes in the order write_text wrote them

vars == <<objects, commits, HEAD_FILE, output_file, pc, local, versions,
          clock, created, obj_writes>>

Procs == {1, 2}          \* two invocations of the CLI can overlap
Times == 1..MaxTime

NoFile == [exists |-> FALSE, text |-> <<>>]
File(text) == [exists |-> TRUE, text |-> text]

\* the raw files and the configuration files a caller can name
RawFiles == {File(<<"A">>), File(<<"a">>), NoFile}

EmptyConfig == [k \in {} |-> FALSE]
JsonFile(value) == [exists |-> TRUE, json_ok |-> TRUE, value |-> value]
MalformedFile == [exists |-> TRUE, json_ok |-> FALSE, value |-> EmptyConfig]
NoConfigFile == [exists |-> FALSE, json_ok |-> FALSE, value |-> EmptyConfig]
ConfigFiles ==
    {JsonFile(EmptyConfig), JsonFile([lowercase |-> TRUE]),
     MalformedFile, NoConfigFile}

\* ---------------------------------------------------------------- json
\* mutant: the configuration is left out of the hashed record
json_dumps_sorted_no_config(d) ==
    << <<"config", EmptyConfig>>, <<"object_hash", d.object_hash>>,
       <<"parent", d.parent>>, <<"timestamp", d.timestamp>> >>

\* mutant: the parent is left out of the hashed record
json_dumps_sorted_no_parent(d) ==
    << <<"config", d.config>>, <<"object_hash", d.object_hash>>,
       <<"parent", None>>, <<"timestamp", d.timestamp>> >>

\* json.dumps(commit_data, sort_keys=True): members in key order
json_dumps_sorted(d) ==
    << <<"config", d.config>>, <<"object_hash", d.object_hash>>,
       <<"parent", d.parent>>, <<"timestamp", d.timestamp>> >>

\* json.dumps(commit_data, indent=4): members in insertion order
json_dumps_indent(d) ==
    << <<"object_hash", d.object_hash>>, <<"parent", d.parent>>,
       <<"timestamp", d.timestamp>>, <<"config", d.config>> >>

\* json.loads of an object: a dict keyed by the member names
json_loads(s) ==
    [k \in {s[i][1] : i \in DOMAIN s} |->
        s[CHOOSE i \in DOMAIN s : s[i][1] = k][2]]

\* Path.write_text: creates the file or replaces its text
write_text(dir, name, text) ==
    [n \in DOMAIN dir \cup {name} |-> IF n = name THEN text ELSE dir[n]]

\* ------------------------------------------------------- commit handling
get_head ==
    IF HEAD_FILE.exists THEN HEAD_FILE.text ELSE None

make_commit_data(object_hash, config, parent, timestamp) ==
    [object_hash |-> object_hash, parent |-> parent,
     timestamp |-> timestamp, config |-> config]

commit_id_of(commit_data) == hash_content(json_dumps_sorted(commit_data))

load_commit(commit_id) == json_loads(commits[commit_id])

load_object(object_hash) == objects[object_hash]

\* a well-formed id that create_commit never produced
UnknownCommitId == hash_content(<<>>)

\* ------------------------------------------------------------------ Init
InitLocal ==
    [op |-> "none", status |-> "none",
     raw_text |-> <<>>, config |-> EmptyConfig, processed_text |-> <<>>,
     object_hash |-> None, parent |-> None,
     commit_data |-> make_commit_data(None, EmptyConfig, None, 0),
     commit_id |-> None, arg |-> None,
     wrote_object |-> FALSE, wrote_commit |-> FALSE,
     object_existed |-> FALSE, commit_existed |-> FALSE,
     printed |-> <<>>, no_commits |-> FALSE, ret |-> None]

Init ==
    /\ objects = <<>>
    /\ commits = <<>>
    /\ HEAD_FILE = NoFile
    /\ output_file = NoFile
    /\ pc = [p \in Procs |-> "idle"]
    /\ local = [p \in Procs |-> InitLocal]
    /\ versions = 0
    /\ clock = 1
    /\ created = <<>>
    /\ obj_writes = <<>>

\* mutant: a configuration file that does not parse is taken as the empty
\* configuration
CreateVersionBeginDefaultConfig(p, raw_file, config_file) ==
    /\ pc[p] = "idle"
    /\ versions < MaxVersions
    /\ versions' = versions + 1
    /\ IF ~raw_file.exists \/ ~config_file.exists
       THEN /\ local' = [local EXCEPT ![p] =
                   [InitLocal EXCEPT !.op = "create",
                                     !.status = "FileNotFoundError"]]
            /\ pc' = pc
       ELSE /\ local' = [local EXCEPT ![p] =
                   [InitLocal EXCEPT !.op = "create", !.status = "running",
                                     !.raw_text = raw_file.text,
                                     !.config = config_file.value]]
            /\ pc' = [pc EXCEPT ![p] = "preprocess"]
    /\ UNCHANGED <<objects, commits, HEAD_FILE, output_file, clock, created,
                   obj_writes>>

\* --------------------------------------------------------- create_version
\* lines 109-110: read the two files and parse the configuration
CreateVersionBegin(p, raw_file, config_file) ==
    /\ pc[p] = "idle"
    /\ versions < MaxVersions
    /\ versions' = versions + 1
    /\ IF ~raw_file.exists \/ ~config_file.exists
       THEN /\ local' = [local EXCEPT ![p] =
                   [InitLocal EXCEPT !.op = "create",
                                     !.status = "FileNotFoundError"]]
            /\ pc' = pc
       ELSE IF ~config_file.json_ok
       THEN /\ local' = [local EXCEPT ![p] =
                   [InitLocal EXCEPT !.op = "create",
                                     !.status = "JSONDecodeError"]]
            /\ pc' = pc
       ELSE /\ local' = [local EXCEPT ![p] =
                   [InitLocal EXCEPT !.op = "create", !.status = "running",
                                     !.raw_text = raw_file.text,
                                     !.config = config_file.value]]
            /\ pc' = [pc EXCEPT ![p] = "preprocess"]
    /\ UNCHANGED <<objects, commits, HEAD_FILE, output_file, clock, created,
                   obj_writes>>

\* line 112
Preprocess(p) ==
    /\ pc[p] = "preprocess"
    /\ local' = [local EXCEPT ![p].processed_text =
                     preprocess_text(local[p].raw_text, local[p].config)]
    /\ pc' = [pc EXCEPT ![p] = "store_check"]
    /\ UNCHANGED <<objects, commits, HEAD_FILE, output_file, versions,
                   clock, created, obj_writes>>

\* mutant: the existence test is dropped, every call writes
StoreCheckNoDedup(p) ==
    /\ pc[p] = "store_check"
    /\ local' = [local EXCEPT
           ![p].object_hash = hash_content(local[p].processed_text),
           ![p].object_existed =
               hash_content(local[p].processed_text) \in DOMAIN objects]
    /\ pc' = [pc EXCEPT ![p] = "store_write"]
    /\ UNCHANGED <<objects, commits, HEAD_FILE, output_file, versions,
                   clock, created, obj_writes>>

\* mutant: the existence test of store_object is inverted, the payload is
\* written only when its path already exists
StoreCheckInverted(p) ==
    /\ pc[p] = "store_check"
    /\ LET object_hash == hash_content(local[p].processed_text)
       IN  /\ local' = [local EXCEPT
                      ![p].object_hash = object_hash,
                      ![p].object_existed = object_hash \in DOMAIN objects]
           /\ pc' = [pc EXCEPT ![p] =
                        IF object_hash \in DOMAIN objects
                        THEN "store_write" ELSE "get_head"]
    /\ UNCHANGED <<objects, commits, HEAD_FILE, output_file, versions,
                   clock, created, obj_writes>>

\* mutant: the object is keyed by the hash of the raw text, not by the hash
\* of the content it stores
StoreCheckHashRaw(p) ==
    /\ pc[p] = "store_check"
    /\ LET object_hash == hash_content(local[p].raw_text)
       IN  /\ local' = [local EXCEPT
                      ![p].object_hash = object_hash,
                      ![p].object_existed = object_hash \in DOMAIN objects]
           /\ pc' = [pc EXCEPT ![p] =
                        IF object_hash \notin DOMAIN objects
                        THEN "store_write" ELSE "get_head"]
    /\ UNCHANGED <<objects, commits, HEAD_FILE, output_file, versions,
                   clock, created, obj_writes>>

\* store_object, lines 31-39: hash the content, test whether the path exists
StoreCheck(p) ==
    /\ pc[p] = "store_check"
    /\ LET object_hash == hash_content(local[p].processed_text)
       IN  /\ local' = [local EXCEPT
                      ![p].object_hash = object_hash,
                      ![p].object_existed = object_hash \in DOMAIN objects]
           /\ pc' = [pc EXCEPT ![p] =
                        IF object_hash \notin DOMAIN objects
                        THEN "store_write" ELSE "get_head"]
    /\ UNCHANGED <<objects, commits, HEAD_FILE, output_file, versions,
                   clock, created, obj_writes>>

\* mutant: the raw text is written instead of the processed text
StoreWriteRaw(p) ==
    /\ pc[p] = "store_write"
    /\ objects' = write_text(objects, local[p].object_hash, local[p].raw_text)
    /\ obj_writes' = Append(obj_writes, local[p].object_hash)
    /\ local' = [local EXCEPT ![p].wrote_object = TRUE]
    /\ pc' = [pc EXCEPT ![p] = "get_head"]
    /\ UNCHANGED <<commits, HEAD_FILE, output_file, versions, clock, created>>

\* store_object, line 40
StoreWrite(p) ==
    /\ pc[p] = "store_write"
    /\ objects' = write_text(objects, local[p].object_hash,
                             local[p].processed_text)
    /\ obj_writes' = Append(obj_writes, local[p].object_hash)
    /\ local' = [local EXCEPT ![p].wrote_object = TRUE]
    /\ pc' = [pc EXCEPT ![p] = "get_head"]
    /\ UNCHANGED <<commits, HEAD_FILE, output_file, versions, clock, created>>

\* mutant: the parent is not taken from HEAD
GetHeadIgnored(p) ==
    /\ pc[p] = "get_head"
    /\ local' = [local EXCEPT ![p].parent = None]
    /\ pc' = [pc EXCEPT ![p] = "commit_check"]
    /\ UNCHANGED <<objects, commits, HEAD_FILE, output_file, versions,
                   clock, created, obj_writes>>

\* line 116
GetHead(p) ==
    /\ pc[p] = "get_head"
    /\ local' = [local EXCEPT ![p].parent = get_head]
    /\ pc' = [pc EXCEPT ![p] = "commit_check"]
    /\ UNCHANGED <<objects, commits, HEAD_FILE, output_file, versions,
                   clock, created, obj_writes>>

\* mutant: HEAD is overwritten as soon as the commit id is known, before the
\* commit file is written
CommitCheckHeadFirst(p, timestamp) ==
    /\ pc[p] = "commit_check"
    /\ timestamp >= clock
    /\ clock' = timestamp
    /\ LET commit_data == make_commit_data(local[p].object_hash,
                              local[p].config, local[p].parent, timestamp)
           commit_id == commit_id_of(commit_data)
       IN  /\ local' = [local EXCEPT ![p].commit_data = commit_data,
                                     ![p].commit_id = commit_id,
                                     ![p].commit_existed =
                                         commit_id \in DOMAIN commits]
           /\ HEAD_FILE' = File(commit_id)
           /\ pc' = [pc EXCEPT ![p] =
                        IF commit_id \notin DOMAIN commits
                        THEN "commit_write" ELSE "update_head"]
    /\ UNCHANGED <<objects, commits, output_file, versions,
                   created, obj_writes>>

\* mutant: the existence test of create_commit is inverted, the record is
\* written only when its file already exists
CommitCheckInverted(p, timestamp) ==
    /\ pc[p] = "commit_check"
    /\ timestamp >= clock
    /\ clock' = timestamp
    /\ LET commit_data == make_commit_data(local[p].object_hash,
                              local[p].config, local[p].parent, timestamp)
           commit_id == commit_id_of(commit_data)
       IN  /\ local' = [local EXCEPT ![p].commit_data = commit_data,
                                     ![p].commit_id = commit_id,
                                     ![p].commit_existed =
                                         commit_id \in DOMAIN commits]
           /\ pc' = [pc EXCEPT ![p] =
                        IF commit_id \in DOMAIN commits
                        THEN "commit_write" ELSE "update_head"]
    /\ UNCHANGED <<objects, commits, HEAD_FILE, output_file, versions,
                   created, obj_writes>>

\* create_commit, lines 82-94: build the record at the clock's reading (no
\* earlier than the reading before it, possibly the same), derive the id,
\* test whether the commit file exists
CommitCheck(p, timestamp) ==
    /\ pc[p] = "commit_check"
    /\ timestamp >= clock
    /\ clock' = timestamp
    /\ LET commit_data == make_commit_data(local[p].object_hash,
                              local[p].config, local[p].parent, timestamp)
           commit_id == commit_id_of(commit_data)
       IN  /\ local' = [local EXCEPT ![p].commit_data = commit_data,
                                     ![p].commit_id = commit_id,
                                     ![p].commit_existed =
                                         commit_id \in DOMAIN commits]
           /\ pc' = [pc EXCEPT ![p] =
                        IF commit_id \notin DOMAIN commits
                        THEN "commit_write" ELSE "update_head"]
    /\ UNCHANGED <<objects, commits, HEAD_FILE, output_file, versions,
                   created, obj_writes>>

\* mutant: the commit record is written to the path of its parent
CommitWriteAtParent(p) ==
    /\ pc[p] = "commit_write"
    /\ commits' = write_text(commits,
                             IF local[p].parent = None
                             THEN local[p].commit_id ELSE local[p].parent,
                             json_dumps_indent(local[p].commit_data))
    /\ local' = [local EXCEPT ![p].wrote_commit = TRUE]
    /\ pc' = [pc EXCEPT ![p] = "update_head"]
    /\ UNCHANGED <<objects, HEAD_FILE, output_file, versions, clock,
                   created, obj_writes>>

\* create_commit, line 95
CommitWrite(p) ==
    /\ pc[p] = "commit_write"
    /\ commits' = write_text(commits, local[p].commit_id,
                             json_dumps_indent(local[p].commit_data))
    /\ local' = [local EXCEPT ![p].wrote_commit = TRUE]
    /\ pc' = [pc EXCEPT ![p] = "update_head"]
    /\ UNCHANGED <<objects, HEAD_FILE, output_file, versions, clock,
                   created, obj_writes>>

\* mutant: HEAD is written only when it still names the parent that was read
UpdateHeadIfUnmoved(p) ==
    /\ pc[p] = "update_head"
    /\ HEAD_FILE' = IF get_head = local[p].parent
                    THEN File(local[p].commit_id) ELSE HEAD_FILE
    /\ local' = [local EXCEPT ![p].printed = <<local[p].commit_id>>,
                              ![p].ret = None,
                              ![p].status = "ok"]
    /\ created' = Append(created, [id |-> local[p].commit_id,
                                   text |-> preprocess_text(local[p].raw_text,
                                                            local[p].config)])
    /\ pc' = [pc EXCEPT ![p] = "idle"]
    /\ UNCHANGED <<objects, commits, output_file, versions, clock,
                   obj_writes>>

\* mutant: the parent's id is printed in place of the new commit's
UpdateHeadPrintParent(p) ==
    /\ pc[p] = "update_head"
    /\ HEAD_FILE' = File(local[p].commit_id)
    /\ local' = [local EXCEPT ![p].printed = <<local[p].parent>>,
                              ![p].ret = None,
                              ![p].status = "ok"]
    /\ created' = Append(created, [id |-> local[p].commit_id,
                                   text |-> preprocess_text(local[p].raw_text,
                                                            local[p].config)])
    /\ pc' = [pc EXCEPT ![p] = "idle"]
    /\ UNCHANGED <<objects, commits, output_file, versions, clock,
                   obj_writes>>

\* mutant: HEAD is written only while it is empty
UpdateHeadIfAbsent(p) ==
    /\ pc[p] = "update_head"
    /\ HEAD_FILE' = IF get_head = None
                    THEN File(local[p].commit_id) ELSE HEAD_FILE
    /\ local' = [local EXCEPT ![p].printed = <<local[p].commit_id>>,
                              ![p].ret = None,
                              ![p].status = "ok"]
    /\ created' = Append(created, [id |-> local[p].commit_id,
                                   text |-> preprocess_text(local[p].raw_text,
                                                            local[p].config)])
    /\ pc' = [pc EXCEPT ![p] = "idle"]
    /\ UNCHANGED <<objects, commits, output_file, versions, clock,
                   obj_writes>>

\* lines 120-123: overwrite HEAD, print the id; the function returns None
UpdateHead(p) ==
    /\ pc[p] = "update_head"
    /\ HEAD_FILE' = File(local[p].commit_id)
    /\ local' = [local EXCEPT ![p].printed = <<local[p].commit_id>>,
                              ![p].ret = None,
                              ![p].status = "ok"]
    /\ created' = Append(created, [id |-> local[p].commit_id,
                                   text |-> preprocess_text(local[p].raw_text,
                                                            local[p].config)])
    /\ pc' = [pc EXCEPT ![p] = "idle"]
    /\ UNCHANGED <<objects, commits, output_file, versions, clock,
                   obj_writes>>

\* store_object, line 40, when Path.write_text raises (the file cannot be
\* created): the OSError leaves create_version, nothing was written
StoreWriteFails(p) ==
    /\ pc[p] = "store_write"
    /\ local' = [local EXCEPT ![p].status = "OSError"]
    /\ pc' = [pc EXCEPT ![p] = "idle"]
    /\ UNCHANGED <<objects, commits, HEAD_FILE, output_file, versions,
                   clock, created, obj_writes>>

\* create_commit, line 95, when Path.write_text raises: the OSError leaves
\* create_version before line 120, no commit file was created
CommitWriteFails(p) ==
    /\ pc[p] = "commit_write"
    /\ local' = [local EXCEPT ![p].status = "OSError"]
    /\ pc' = [pc EXCEPT ![p] = "idle"]
    /\ UNCHANGED <<objects, commits, HEAD_FILE, output_file, versions,
                   clock, created, obj_writes>>

\* ------------------------------------------------------------- environment
\* dataset_repo/objects is an ordinary directory: an object file can be
\* deleted from outside the program between two of its runs (one deletion
\* in a behaviour)
ExternalRemoveObject(object_hash) ==
    /\ \A p \in Procs : pc[p] = "idle"
    /\ Len(obj_writes) = Cardinality(DOMAIN objects)
    /\ object_hash \in DOMAIN objects
    /\ objects' = [h \in DOMAIN objects \ {object_hash} |-> objects[h]]
    /\ UNCHANGED <<commits, HEAD_FILE, output_file, pc, local, versions,
                   clock, created, obj_writes>>

\* ---------------------------------------------------------------- checkout
\* mutant: the output file is opened for writing before the two reads
CheckoutOpenFirst(p, commit_id) ==
    /\ pc[p] = "idle"
    /\ IF commit_id \notin DOMAIN commits
       THEN /\ local' = [local EXCEPT ![p] =
                   [InitLocal EXCEPT !.op = "checkout", !.arg = commit_id,
                                     !.status = "FileNotFoundError"]]
            /\ output_file' = File(<<>>)
       ELSE IF load_commit(commit_id).object_hash \notin DOMAIN objects
       THEN /\ local' = [local EXCEPT ![p] =
                   [InitLocal EXCEPT !.op = "checkout", !.arg = commit_id,
                                     !.status = "FileNotFoundError"]]
            /\ output_file' = File(<<>>)
       ELSE /\ local' = [local EXCEPT ![p] =
                   [InitLocal EXCEPT !.op = "checkout", !.arg = commit_id,
                                     !.status = "ok"]]
            /\ output_file' =
                   File(load_object(load_commit(commit_id).object_hash))
    /\ UNCHANGED <<objects, commits, HEAD_FILE, pc, versions, clock,
                   created, obj_writes>>

\* mutant: a successful checkout also makes HEAD name the commit checked out
CheckoutMovesHead(p, commit_id) ==
    /\ pc[p] = "idle"
    /\ IF commit_id \notin DOMAIN commits
       THEN /\ local' = [local EXCEPT ![p] =
                   [InitLocal EXCEPT !.op = "checkout", !.arg = commit_id,
                                     !.status = "FileNotFoundError"]]
            /\ output_file' = output_file
            /\ HEAD_FILE' = HEAD_FILE
       ELSE IF load_commit(commit_id).object_hash \notin DOMAIN objects
       THEN /\ local' = [local EXCEPT ![p] =
                   [InitLocal EXCEPT !.op = "checkout", !.arg = commit_id,
                                     !.status = "FileNotFoundError"]]
            /\ output_file' = output_file
            /\ HEAD_FILE' = HEAD_FILE
       ELSE /\ local' = [local EXCEPT ![p] =
                   [InitLocal EXCEPT !.op = "checkout", !.arg = commit_id,
                                     !.status = "ok"]]
            /\ output_file' =
                   File(load_object(load_commit(commit_id).object_hash))
            /\ HEAD_FILE' = File(commit_id)
    /\ UNCHANGED <<objects, commits, pc, versions, clock,
                   created, obj_writes>>

\* lines 152-156: each read raises FileNotFoundError when its file is absent,
\* and the destination is written only after both reads returned
Checkout(p, commit_id) ==
    /\ pc[p] = "idle"
    /\ IF commit_id \notin DOMAIN commits
       THEN /\ local' = [local EXCEPT ![p] =
                   [InitLocal EXCEPT !.op = "checkout", !.arg = commit_id,
                                     !.status = "FileNotFoundError"]]
            /\ output_file' = output_file
       ELSE IF load_commit(commit_id).object_hash \notin DOMAIN objects
       THEN /\ local' = [local EXCEPT ![p] =
                   [InitLocal EXCEPT !.op = "checkout", !.arg = commit_id,
                                     !.status = "FileNotFoundError"]]
            /\ output_file' = output_file
       ELSE /\ local' = [local EXCEPT ![p] =
                   [InitLocal EXCEPT !.op = "checkout", !.arg = commit_id,
                                     !.status = "ok"]]
            /\ output_file' =
                   File(load_object(load_commit(commit_id).object_hash))
    /\ UNCHANGED <<objects, commits, HEAD_FILE, pc, versions, clock,
                   created, obj_writes>>

\* ---------------------------------------------------------------- show_log
\* lines 130-134
ShowLogBegin(p) ==
    /\ pc[p] = "idle"
    /\ IF get_head = None
       THEN /\ local' = [local EXCEPT ![p] =
                   [InitLocal EXCEPT !.op = "log", !.status = "ok",
                                     !.no_commits = TRUE]]
            /\ pc' = pc
       ELSE /\ local' = [local EXCEPT ![p] =
                   [InitLocal EXCEPT !.op = "log", !.status = "running",
                                     !.commit_id = get_head]]
            /\ pc' = [pc EXCEPT ![p] = "log_loop"]
    /\ UNCHANGED <<objects, commits, HEAD_FILE, output_file, versions,
                   clock, created, obj_writes>>

\* mutant: the loop does not move on to the parent
ShowLogStepStuck(p) ==
    /\ pc[p] = "log_loop"
    /\ IF local[p].commit_id \notin DOMAIN commits
       THEN /\ local' = [local EXCEPT ![p].status = "FileNotFoundError"]
            /\ pc' = [pc EXCEPT ![p] = "idle"]
       ELSE /\ local' = [local EXCEPT
                   ![p].printed = Append(@, local[p].commit_id)]
            /\ pc' = pc
    /\ UNCHANGED <<objects, commits, HEAD_FILE, output_file, versions,
                   clock, created, obj_writes>>

\* mutant: an if in place of the while, the walk stops after one commit
ShowLogStepOnce(p) ==
    /\ pc[p] = "log_loop"
    /\ IF local[p].commit_id \notin DOMAIN commits
       THEN /\ local' = [local EXCEPT ![p].status = "FileNotFoundError"]
            /\ pc' = [pc EXCEPT ![p] = "idle"]
       ELSE /\ local' = [local EXCEPT
                   ![p].printed = Append(@, local[p].commit_id),
                   ![p].commit_id = load_commit(local[p].commit_id).parent,
                   ![p].status = "ok"]
            /\ pc' = [pc EXCEPT ![p] = "idle"]
    /\ UNCHANGED <<objects, commits, HEAD_FILE, output_file, versions,
                   clock, created, obj_writes>>

\* lines 136-145: one iteration of the while loop
ShowLogStep(p) ==
    /\ pc[p] = "log_loop"
    /\ IF local[p].commit_id \notin DOMAIN commits
       THEN /\ local' = [local EXCEPT ![p].status = "FileNotFoundError"]
            /\ pc' = [pc EXCEPT ![p] = "idle"]
       ELSE LET commit == load_commit(local[p].commit_id)
            IN  /\ local' = [local EXCEPT
                       ![p].printed = Append(@, local[p].commit_id),
                       ![p].commit_id = commit.parent,
                       ![p].status = IF commit.parent = None
                                     THEN "ok" ELSE "running"]
                /\ pc' = [pc EXCEPT ![p] =
                             IF commit.parent = None
                             THEN "idle" ELSE "log_loop"]
    /\ UNCHANGED <<objects, commits, HEAD_FILE, output_file, versions,
                   clock, created, obj_writes>>

\* ------------------------------------------------------------ specifications
CreateVersionStep(p) ==
    \/ Preprocess(p)
    \/ StoreCheck(p)
    \/ StoreWrite(p)
    \/ GetHead(p)
    \/ \E timestamp \in Times : CommitCheck(p, timestamp)
    \/ CommitWrite(p)
    \/ UpdateHead(p)

\* main(): one invocation at a time, each running to its end
Next ==
    \/ \E raw_file \in RawFiles, config_file \in ConfigFiles :
           CreateVersionBegin(1, raw_file, config_file)
    \/ CreateVersionStep(1)
    \/ \E commit_id \in DOMAIN commits \cup {UnknownCommitId} :
           Checkout(1, commit_id)
    \/ ShowLogBegin(1)
    \/ ShowLogStep(1)

Spec == Init /\ [][Next]_vars

\* the same run on a repository whose object files can vanish
NextExt ==
    \/ Next
    \/ \E object_hash \in DOMAIN objects : ExternalRemoveObject(object_hash)

SpecExt == Init /\ [][NextExt]_vars

\* two create_version invocations whose file reads and writes interleave
NextConc ==
    \E p \in Procs :
        \/ /\ versions < MaxOverlap
           /\ \E raw_file \in RawFiles, config_file \in ConfigFiles :
                  CreateVersionBegin(p, raw_file, config_file)
        \/ CreateVersionStep(p)

SpecConc == Init /\ [][NextConc]_vars

\* the sequential run on a file system whose writes can be refused
NextFail ==
    \/ Next
    \/ StoreWriteFails(1)
    \/ CommitWriteFails(1)

SpecFail == Init /\ [][NextFail]_vars

\* preprocess_text on its own: create_version stands at line 112 with any raw
\* text and any configuration
InitPre ==
    /\ objects = <<>>
    /\ commits = <<>>
    /\ HEAD_FILE = NoFile
    /\ output_file = NoFile
    /\ pc = [p \in Procs |-> IF p = 1 THEN "preprocess" ELSE "idle"]
    /\ \E text \in AllTexts, config \in AllConfigs :
          local = [p \in Procs |->
                      IF p = 1
                      THEN [InitLocal EXCEPT !.op = "create",
                                             !.status = "running",
                                             !.raw_text = text,
                                             !.config = config]
                      ELSE InitLocal]
    /\ versions = 1
    /\ clock = 1
    /\ created = <<>>
    /\ obj_writes = <<>>

NextPre == Preprocess(1)

SpecPre == InitPre /\ [][NextPre]_vars

\* a run that is scheduled until it ends: the log loop keeps iterating
FairSpec == Spec /\ WF_vars(ShowLogStep(1))

\* ------------------------------------------------------- derived notions
\* the ids met by following parent from commit_id, at most fuel of them
RECURSIVE ChainFrom(_, _)
ChainFrom(commit_id, fuel) ==
    IF commit_id = None \/ commit_id \notin DOMAIN commits \/ fuel = 0
    THEN <<>>
    ELSE <<commit_id>> \o ChainFrom(load_commit(commit_id).parent, fuel - 1)

HeadChain == ChainFrom(get_head, Cardinality(DOMAIN commits) + 1)

NoRepeat(seq) == \A i, j \in DOMAIN seq : seq[i] = seq[j] => i = j

Reverse(seq) == [i \in 1..Len(seq) |-> seq[Len(seq) + 1 - i]]

CreatedIds == [i \in 1..Len(created) |-> created[i].id]

StoreReturned(p) ==
    /\ local[p].op = "create"
    /\ pc[p] \in {"get_head", "commit_check", "commit_write", "update_head"}
       \/ (pc[p] = "idle" /\ local[p].status = "ok")

\* ----------------------------------------------------------------- claims
\* C1: parent linkage.  The commit of each create_version that returned has
\* as parent the id of the commit of the create_version that returned just
\* before it (None for the first one on the empty repository), and get_head()
\* is the id of the latest one.
ParentLinkage ==
    /\ \A i \in 1..Len(created) :
          /\ created[i].id \in DOMAIN commits
          /\ load_commit(created[i].id).parent =
                 (IF i = 1 THEN None ELSE created[i - 1].id)
    /\ get_head = (IF created = <<>> THEN None ELSE created[Len(created)].id)

ParentLinkageWitness ==
    /\ Len(created) >= 2
    /\ pc[1] = "idle"
    /\ load_commit(created[2].id).parent = created[1].id
    /\ get_head = created[Len(created)].id

\* what a store_object call that returned has established
StoreReturnsHash ==
    /\ \A p \in Procs : StoreReturned(p) =>
          /\ local[p].object_hash = hash_content(local[p].processed_text)
          /\ local[p].object_hash \in DOMAIN objects
          /\ load_object(local[p].object_hash) = local[p].processed_text
          /\ local[p].object_existed => ~local[p].wrote_object
    /\ NoRepeat(obj_writes)
    /\ \A i, j \in 1..Len(created) :
          created[i].text = created[j].text =>
              load_commit(created[i].id).object_hash =
                  load_commit(created[j].id).object_hash

\* a store_object call on content that is stored: one step, nothing written
StoreOfStored(p) ==
    /\ pc[p] = "store_check"
    /\ pc'[p] # "store_check"
    /\ hash_content(local[p].processed_text) \in DOMAIN objects

\* C2: store_object is idempotent.  It returns the hash of the content; when
\* the object is already stored the call writes nothing and leaves the object
\* store as it found it; no payload is written twice; equal content gives the
\* same hash in every call.
StoreIdempotent ==
    /\ []StoreReturnsHash
    /\ [][\A p \in Procs : StoreOfStored(p) =>
              /\ pc'[p] = "get_head"
              /\ local'[p].object_hash
                     = hash_content(local[p].processed_text)
              /\ objects' = objects
              /\ obj_writes' = obj_writes]_vars

StoreIdempotentWitness ==
    /\ pc[1] = "get_head"
    /\ local[1].object_existed
    /\ ~local[1].wrote_object
    /\ Len(obj_writes) = 1
    /\ Len(created) >= 1

\* C3: round trip.  Every commit made by create_version(R, CFG) can be checked
\* out at any later time, and a checkout of it writes preprocess_text(R, CFG)
\* to the output file.
RoundTrip ==
    /\ \A i \in 1..Len(created) :
          /\ created[i].id \in DOMAIN commits
          /\ load_commit(created[i].id).object_hash \in DOMAIN objects
          /\ load_object(load_commit(created[i].id).object_hash)
                 = created[i].text
    /\ \A p \in Procs, i \in 1..Len(created) :
          (local[p].op = "checkout" /\ local[p].arg = created[i].id) =>
              /\ local[p].status = "ok"
              /\ output_file = File(created[i].text)

RoundTripWitness ==
    /\ Len(created) = 3
    /\ local[1].op = "checkout"
    /\ local[1].arg = created[1].id
    /\ local[1].status = "ok"
    /\ created[1].text # created[3].text
    /\ output_file = File(created[1].text)

\* the chain from HEAD repeats no commit, and a walk is a prefix of it
LogWalkSound ==
    /\ NoRepeat(HeadChain)
    /\ Len(HeadChain) <= Cardinality(DOMAIN commits)
    /\ \A p \in Procs : local[p].op = "log" =>
          /\ NoRepeat(local[p].printed)
          /\ local[p].printed
                 \o ChainFrom(local[p].commit_id, Cardinality(DOMAIN commits))
                 = HeadChain
          /\ pc[p] = "idle" => (local[p].status = "ok"
                                /\ local[p].commit_id = None)

\* C4: the parent chain from HEAD has no cycle, and the log walk terminates
\* having visited each commit of the chain exactly once: what it has printed
\* followed by what is still ahead of it is the chain from HEAD, without a
\* repeat, and a walk that has started comes to its end.
LogTerminates ==
    /\ []LogWalkSound
    /\ \A p \in Procs : (pc[p] = "log_loop") ~> (pc[p] = "idle")

LogTerminatesWitness ==
    /\ local[1].op = "log"
    /\ pc[1] = "idle"
    /\ local[1].status = "ok"
    /\ Len(local[1].printed) = 3

\* C9: the log of a repository built by n create_version calls lists exactly
\* their n commits, latest first, the last one listed having no parent; on the
\* empty repository get_head() is None and the log lists nothing and succeeds.
LogOrder ==
    /\ created = <<>> => get_head = None
    /\ \A p \in Procs : (local[p].op = "log" /\ pc[p] = "idle") =>
          /\ local[p].status = "ok"
          /\ local[p].printed = Reverse(CreatedIds)
          /\ local[p].no_commits = (created = <<>>)
          /\ local[p].printed # <<>> =>
                 load_commit(local[p].printed[Len(local[p].printed)]).parent
                     = None
    /\ \A p \in Procs : (local[p].op = "log" /\ pc[p] = "log_loop") =>
          local[p].printed =
              SubSeq(Reverse(CreatedIds), 1, Len(local[p].printed))

LogOrderWitness ==
    /\ local[1].op = "log"
    /\ pc[1] = "idle"
    /\ Len(created) = 3
    /\ local[1].printed = <<created[3].id, created[2].id, created[1].id>>

LogEmptyWitness ==
    /\ local[1].op = "log"
    /\ pc[1] = "idle"
    /\ local[1].no_commits
    /\ local[1].printed = <<>>

IsCheckoutStep(p) ==
    /\ pc[p] = "idle"
    /\ local'[p].op = "checkout"
    /\ UNCHANGED <<objects, commits, HEAD_FILE, pc>>

\* C5: a checkout whose commit id has no commit file, or whose commit names
\* an object that has no object file, ends in FileNotFoundError and leaves the
\* output file as it was before the call.
NotFoundOnCheckout ==
    [][\A p \in Procs : IsCheckoutStep(p) =>
          ((\/ local'[p].arg \notin DOMAIN commits
            \/ load_commit(local'[p].arg).object_hash \notin DOMAIN objects)
           => /\ local'[p].status = "FileNotFoundError"
              /\ output_file' = output_file)]_vars

\* the commit exists, its object does not, the output file holds an earlier
\* checkout
NotFoundOnCheckoutWitness ==
    /\ local[1].op = "checkout"
    /\ local[1].status = "FileNotFoundError"
    /\ local[1].arg \in DOMAIN commits
    /\ load_commit(local[1].arg).object_hash \notin DOMAIN objects
    /\ output_file.exists

UnknownCommitWitness ==
    /\ local[1].op = "checkout"
    /\ local[1].status = "FileNotFoundError"
    /\ local[1].arg = UnknownCommitId
    /\ local[1].arg \notin DOMAIN commits
    /\ output_file.exists
    /\ commits # <<>>

\* the create_commit call of p has computed its id
CommitIdComputed(p) ==
    /\ local[p].op = "create"
    /\ pc[p] \in {"commit_write", "update_head"}
       \/ (pc[p] = "idle" /\ local[p].status = "ok")

SameButConfigOrParent(d, e) ==
    /\ d.object_hash = e.object_hash
    /\ d.timestamp = e.timestamp
    /\ d.config # e.config \/ d.parent # e.parent

\* C7: the commit id is a function of (object_hash, config, parent,
\* timestamp).  Two create_commit calls with the same four values get the same
\* id, and a call that finds its id stored writes nothing; two calls that
\* differ in config or in parent, the rest equal, get different ids.  The id
\* of every stored commit is the hash of the record read back from its file.
CommitIdDeterminism ==
    /\ \A p, q \in Procs : (CommitIdComputed(p) /\ CommitIdComputed(q)) =>
          /\ local[p].commit_data = local[q].commit_data
                 => local[p].commit_id = local[q].commit_id
          /\ SameButConfigOrParent(local[p].commit_data, local[q].commit_data)
                 => local[p].commit_id # local[q].commit_id
    /\ \A p \in Procs : CommitIdComputed(p) =>
          /\ local[p].commit_existed
                 => (~local[p].wrote_commit /\ pc[p] # "commit_write")
          /\ local[p].commit_id \in DOMAIN commits
                 => load_commit(local[p].commit_id) = local[p].commit_data
    /\ \A c \in DOMAIN commits : commit_id_of(load_commit(c)) = c

\* the second of two identical calls found the commit stored and skipped
CommitIdDeterminismWitness ==
    /\ CommitIdComputed(1) /\ CommitIdComputed(2)
    /\ local[1].commit_data = local[2].commit_data
    /\ local[1].wrote_commit
    /\ local[2].commit_existed
    /\ ~local[2].wrote_commit

CommitIdDiffersWitness ==
    /\ CommitIdComputed(1) /\ CommitIdComputed(2)
    /\ local[1].commit_data.config # local[2].commit_data.config
    /\ local[1].commit_data.object_hash = local[2].commit_data.object_hash
    /\ local[1].commit_data.parent = local[2].commit_data.parent
    /\ local[1].commit_data.timestamp = local[2].commit_data.timestamp

\* two calls that read the same parent have returned with different commits
BothReturned(p, q) ==
    /\ p # q
    /\ local[p].op = "create" /\ pc[p] = "idle" /\ local[p].status = "ok"
    /\ local[q].op = "create" /\ pc[q] = "idle" /\ local[q].status = "ok"
    /\ local[p].parent = local[q].parent
    /\ local[p].commit_id # local[q].commit_id

OnHeadChain(commit_id) ==
    \E i \in 1..Len(HeadChain) : HeadChain[i] = commit_id

\* C8: lost update.  When two overlapping create_version calls have both
\* returned, having read the same parent and made two different commits, both
\* commits are stored with that parent, HEAD names the one whose update_head
\* ran last (an unconditional overwrite) and the log walk from HEAD does not
\* reach the other.
LostUpdate ==
    \A p, q \in Procs : BothReturned(p, q) =>
        /\ local[p].commit_id \in DOMAIN commits
        /\ local[q].commit_id \in DOMAIN commits
        /\ load_commit(local[p].commit_id).parent
               = load_commit(local[q].commit_id).parent
        /\ get_head \in {local[p].commit_id, local[q].commit_id}
        /\ get_head = created[Len(created)].id
        /\ created[Len(created) - 1].id
               \in {local[p].commit_id, local[q].commit_id} \ {get_head}
        /\ get_head = local[p].commit_id => ~OnHeadChain(local[q].commit_id)
        /\ get_head = local[q].commit_id => ~OnHeadChain(local[p].commit_id)
        /\ Len(HeadChain) < Cardinality(DOMAIN commits)

LostUpdateWitness ==
    /\ BothReturned(1, 2)
    /\ get_head = local[2].commit_id
    /\ local[1].commit_id \in DOMAIN commits
    /\ ~OnHeadChain(local[1].commit_id)

\* the reference transformation, written from positions and not by loops
RefEnabled(config, key) == key \in DOMAIN config /\ config[key] = TRUE

RefLowerOf == ("A" :> "a") @@ ("H" :> "h") @@ ("W" :> "w")

RefLower(t) ==
    [i \in 1..Len(t) |-> IF t[i] \in UpperCase THEN RefLowerOf[t[i]] ELSE t[i]]

RefWordOrSpace(c) == c \notin Punctuation

RefStrip(t) == SelectSeq(t, RefWordOrSpace)

RefBreaks(t) == {i \in 1..Len(t) : t[i] = LineBreak}

RefKthBreak(t, k) ==
    CHOOSE b \in RefBreaks(t) :
        Cardinality({x \in RefBreaks(t) : x <= b}) = k

RefNumLines(t) ==
    Cardinality(RefBreaks(t))
        + (IF Len(t) > 0 /\ t[Len(t)] # LineBreak THEN 1 ELSE 0)

RefLines(t) ==
    [k \in 1..RefNumLines(t) |->
        SubSeq(t,
               IF k = 1 THEN 1 ELSE RefKthBreak(t, k - 1) + 1,
               IF k <= Cardinality(RefBreaks(t))
               THEN RefKthBreak(t, k) - 1 ELSE Len(t))]

RefFirsts(ls) ==
    {i \in 1..Len(ls) : \A j \in 1..(i - 1) : ls[j] # ls[i]}

RefDistinct(ls) ==
    [k \in 1..Cardinality(RefFirsts(ls)) |->
        ls[CHOOSE i \in RefFirsts(ls) :
               Cardinality({x \in RefFirsts(ls) : x <= i}) = k]]

RECURSIVE RefJoin(_)
RefJoin(ls) ==
    IF Len(ls) = 0 THEN <<>>
    ELSE IF Len(ls) = 1 THEN ls[1]
    ELSE ls[1] \o <<LineBreak>> \o RefJoin(Tail(ls))

RefTransform(text, config) ==
    LET lowered == IF RefEnabled(config, "lowercase")
                   THEN RefLower(text) ELSE text
        stripped == IF RefEnabled(config, "remove_punctuation")
                    THEN RefStrip(lowered) ELSE lowered
        lines == RefLines(stripped)
        kept == IF RefEnabled(config, "remove_duplicates")
                THEN RefDistinct(lines) ELSE lines
    IN  RefJoin(kept)

\* "Hello, World!\nhello, world!\n" with the three options on
ExampleRaw ==
    <<"H", "e", "l", "l", "o", ",", " ", "W", "o", "r", "l", "d", "!", "\n",
      "h", "e", "l", "l", "o", ",", " ", "w", "o", "r", "l", "d", "!", "\n">>

ExampleConfig ==
    [lowercase |-> TRUE, remove_punctuation |-> TRUE,
     remove_duplicates |-> TRUE]

ExampleOut == <<"h", "e", "l", "l", "o", " ", "w", "o", "r", "l", "d">>

\* C10: preprocess_text is the reference transformation: lower-case the whole
\* text if "lowercase" is set, then drop every character that is neither a
\* word character nor whitespace if "remove_punctuation" is set, then split
\* into lines, then keep the first occurrence of each distinct line in order
\* if "remove_duplicates" is set, then join with one newline; an option that
\* is absent is off.
PreprocessMatchesReference ==
    /\ \A p \in Procs : (local[p].op = "create" /\ pc[p] = "store_check") =>
          local[p].processed_text
              = RefTransform(local[p].raw_text, local[p].config)
    /\ preprocess_text(ExampleRaw, ExampleConfig) = ExampleOut

\* lower-casing and stripping made two lines equal, and one was dropped
PreprocessMatchesReferenceWitness ==
    /\ pc[1] = "store_check"
    /\ local[1].raw_text = <<"A", LineBreak, "a", ",">>
    /\ local[1].config = ExampleConfig
    /\ local[1].processed_text = <<"a">>

\* The ids of the commit records written by a step
NewCommits == DOMAIN commits' \ DOMAIN commits

\* In the present state: HEAD is empty or names a stored commit, every stored
\* commit names a stored object, and its parent is None or a stored commit
Referenced ==
    /\ get_head = None \/ get_head \in DOMAIN commits
    /\ \A commit_id \in DOMAIN commits :
          /\ load_commit(commit_id).object_hash \in DOMAIN objects
          /\ \/ load_commit(commit_id).parent = None
             \/ load_commit(commit_id).parent \in DOMAIN commits

\* C11: referential integrity.  In every state of a single-writer run, the
\* states between the steps of create_version included, HEAD is empty or
\* names a stored commit, every stored commit's object_hash names a stored
\* object, and every stored commit's parent is None or a stored commit that
\* was created earlier: it was already stored when the commit was written.
ReferentialIntegrity ==
    /\ []Referenced
    /\ [][\A commit_id \in NewCommits :
             /\ load_commit(commit_id)'.object_hash \in DOMAIN objects
             /\ \/ load_commit(commit_id)'.parent = None
                \/ load_commit(commit_id)'.parent \in DOMAIN commits]_vars

\* C11 witness: between the commit write and the HEAD update of a second
\* version: the new commit is stored, its parent is the stored commit HEAD
\* still names
ReferentialIntegrityWitness ==
    /\ pc[1] = "update_head"
    /\ local[1].wrote_commit
    /\ local[1].commit_id \in DOMAIN commits
    /\ get_head # local[1].commit_id
    /\ get_head \in DOMAIN commits
    /\ load_commit(local[1].commit_id).parent = get_head
    /\ load_commit(local[1].commit_id).object_hash \in DOMAIN objects

\* C12: content addressing and deduplication.  In every state each stored
\* object is keyed by the hash of its own content and no two stored objects
\* have equal content; two create_version calls whose processed text is
\* equal leave exactly one object for that text, and both of their commits
\* carry the same object_hash.
ContentAddressed ==
    /\ \A object_hash \in DOMAIN objects :
          object_hash = hash_content(load_object(object_hash))
    /\ \A h1, h2 \in DOMAIN objects :
          load_object(h1) = load_object(h2) => h1 = h2
    /\ \A i, j \in 1..Len(created) :
          created[i].text = created[j].text =>
              /\ load_commit(created[i].id).object_hash =
                     load_commit(created[j].id).object_hash
              /\ Cardinality({h \in DOMAIN objects :
                                 load_object(h) = created[i].text}) = 1

\* C12 witness: two versions made from different raw texts whose processed
\* text is equal, next to a version with another text
ContentAddressedWitness ==
    \E i, j, k \in 1..Len(created) :
        /\ i < j
        /\ created[i].text = created[j].text
        /\ created[k].text # created[i].text
        /\ Cardinality(DOMAIN objects) = 2
        /\ load_commit(created[i].id).object_hash =
               load_commit(created[j].id).object_hash
        /\ load_object(load_commit(created[j].id).object_hash)
               = created[j].text

\* C13: immutability.  No step of create_version (store_object and
\* create_commit in it), checkout or show_log removes a stored object or a
\* stored commit or changes the text stored under its hash or id: both
\* stores only grow.
Immutable ==
    [][/\ \A object_hash \in DOMAIN objects :
             /\ object_hash \in DOMAIN objects'
             /\ objects'[object_hash] = objects[object_hash]
       /\ \A commit_id \in DOMAIN commits :
             /\ commit_id \in DOMAIN commits'
             /\ commits'[commit_id] = commits[commit_id]]_vars

\* C13 witness: after three versions, a checkout and a log walk, the first
\* version's commit and object are stored with the content they were given
ImmutableWitness ==
    /\ Len(created) = 3
    /\ Cardinality(DOMAIN commits) = 3
    /\ Cardinality(DOMAIN objects) = 2
    /\ local[1].op = "log" /\ pc[1] = "idle"
    /\ output_file # NoFile
    /\ commit_id_of(load_commit(created[1].id)) = created[1].id
    /\ load_object(load_commit(created[1].id).object_hash) = created[1].text

\* The commit the single writer's history ends at: the one HEAD names, or
\* the one a create_version has written and is about to put into HEAD
Tip == IF pc[1] = "update_head" THEN local[1].commit_id ELSE get_head

\* C14: linear history under a single writer.  At most one stored commit has
\* parent None and no two stored commits have the same parent, so a commit
\* has at most one child; whenever create_version has returned, the stored
\* commits are exactly the commits of the chain from HEAD (while the call
\* stands between its commit write and its HEAD write, of the chain from the
\* commit it wrote).
LinearHistory ==
    /\ Cardinality({commit_id \in DOMAIN commits :
                       load_commit(commit_id).parent = None}) <= 1
    /\ \A c1, c2 \in DOMAIN commits :
          load_commit(c1).parent = load_commit(c2).parent => c1 = c2
    /\ pc[1] # "update_head" =>
          {HeadChain[i] : i \in 1..Len(HeadChain)} = DOMAIN commits
    /\ LET chain == ChainFrom(Tip, Cardinality(DOMAIN commits))
       IN  /\ {chain[i] : i \in 1..Len(chain)} = DOMAIN commits
           /\ Len(chain) = Cardinality(DOMAIN commits)

\* C14 witness: three versions were made, the last two from the same input;
\* the three commits are the chain from HEAD
LinearHistoryWitness ==
    /\ Len(created) = 3
    /\ pc[1] = "idle"
    /\ created[2].text = created[3].text
    /\ Cardinality(DOMAIN commits) = 3
    /\ HeadChain = Reverse(CreatedIds)
    /\ load_commit(created[1].id).parent = None

\* Process p takes a step of create_version
IsCreateStep(p) ==
    /\ local'[p].op = "create"
    /\ pc'[p] # pc[p] \/ local'[p] # local[p]

\* The step is the last one of a create_version that succeeds (line 120 on)
IsReturnStep(p) ==
    /\ pc[p] = "update_head"
    /\ pc'[p] = "idle"
    /\ local'[p].status = "ok"

\* C15: HEAD advances last, once per successful create_version.  The last
\* step of a successful call changes HEAD to the id of the commit the call
\* has persisted, and no other step of create_version changes HEAD or the
\* chain from HEAD (HEAD and every record on the chain stay as they are): a
\* call that fails at the input read, the configuration parse, the object
\* write or the commit write leaves HEAD at the value it had before the call.
HeadAdvancesLast ==
    [][\A p \in Procs :
          IsCreateStep(p) =>
              IF IsReturnStep(p)
              THEN /\ HEAD_FILE' = File(local[p].commit_id)
                   /\ HEAD_FILE' # HEAD_FILE
                   /\ local[p].commit_id \in DOMAIN commits
                   /\ Len(created') = Len(created) + 1
              ELSE /\ HEAD_FILE' = HEAD_FILE
                   /\ \A i \in 1..Len(HeadChain) :
                          /\ HeadChain[i] \in DOMAIN commits'
                          /\ commits'[HeadChain[i]] = commits[HeadChain[i]]
                   /\ created' = created]_vars

\* C15 witness: on a repository with one version, a create_version stored a
\* new object and was refused the commit write: HEAD still names the first
\* version's commit
HeadAdvancesLastWitness ==
    /\ local[1].op = "create" /\ pc[1] = "idle"
    /\ local[1].status = "OSError"
    /\ local[1].wrote_object
    /\ local[1].commit_id # None
    /\ local[1].commit_id \notin DOMAIN commits
    /\ Len(created) = 1
    /\ get_head = created[1].id
    /\ HeadChain = <<created[1].id>>

\* The raw file or the configuration file cannot be read, or the
\* configuration is not JSON
BadInput(raw_file, config_file) ==
    ~raw_file.exists \/ ~config_file.exists \/ ~config_file.json_ok

\* C16: no partial processing on bad input.  A create_version call whose raw
\* file or configuration file cannot be read, or whose configuration does
\* not parse, ends at once with the error (FileNotFoundError or
\* JSONDecodeError) and leaves the object store, the commit store and HEAD
\* exactly as they were.
NoPartialProcessing ==
    [][\A raw_file \in RawFiles, config_file \in ConfigFiles :
          (BadInput(raw_file, config_file)
             /\ CreateVersionBegin(1, raw_file, config_file)) =>
              /\ local'[1].status \in {"FileNotFoundError", "JSONDecodeError"}
              /\ pc'[1] = "idle"
              /\ ~local'[1].wrote_object /\ ~local'[1].wrote_commit
              /\ objects' = objects
              /\ commits' = commits
              /\ HEAD_FILE' = HEAD_FILE]_vars

\* C16 witness: on a repository holding two versions, a create_version was
\* given a configuration that does not parse; both versions are still there
NoPartialProcessingWitness ==
    /\ local[1].op = "create" /\ pc[1] = "idle"
    /\ local[1].status = "JSONDecodeError"
    /\ Len(created) = 2
    /\ versions = 3
    /\ Cardinality(DOMAIN commits) = 2
    /\ DOMAIN objects # {}
    /\ get_head = created[2].id

\* The id of the commit of the latest create_version that returned
LatestCreated ==
    IF created = <<>> THEN None ELSE created[Len(created)].id

\* C17: checkout and show_log only read the repository.  No step of a
\* checkout, successful or failed, and no step of a log walk changes the
\* object store, the commit store or HEAD; so after a checkout of an older
\* commit HEAD still names the latest commit, and the parent the next
\* create_version reads is the latest commit.
ReadersReadOnly ==
    /\ [][\A p \in Procs :
             local'[p].op \in {"checkout", "log"} =>
                 /\ objects' = objects
                 /\ commits' = commits
                 /\ HEAD_FILE' = HEAD_FILE]_vars
    /\ [](\A p \in Procs :
             /\ local[p].op = "checkout" => get_head = LatestCreated
             /\ (local[p].op = "create"
                   /\ pc[p] \in {"commit_check", "commit_write",
                                 "update_head"})
                    => local[p].parent = LatestCreated)

\* C17 witness: with two versions stored, the older one was checked out:
\* the destination holds its text and HEAD names the newer commit
ReadersReadOnlyWitness ==
    /\ local[1].op = "checkout" /\ local[1].status = "ok"
    /\ Len(created) = 2
    /\ local[1].arg = created[1].id
    /\ created[1].text # created[2].text
    /\ output_file = File(created[1].text)
    /\ get_head = created[2].id

\* C17, failed checkout and log walk: an unknown id was asked for on a
\* repository with a version, and a log walk has printed an entry
ReadersFailedWitness ==
    /\ Len(created) >= 1
    /\ \/ local[1].op = "checkout" /\ local[1].status = "FileNotFoundError"
       \/ local[1].op = "log" /\ local[1].printed # <<>>
    /\ get_head = LatestCreated

\* C18: a single writer's create_version always makes a fresh commit.  The
\* commit id create_commit computes is never one that is already stored (the
\* commit write is never skipped), also when the clock gives the same
\* timestamp again and the same text and configuration are committed again;
\* so there are as many stored commits as create_version calls that
\* returned, plus the one a call has written while it has not returned yet.
FreshCommit ==
    /\ \A p \in Procs : CommitIdComputed(p) => ~local[p].commit_existed
    /\ NoRepeat(CreatedIds)
    /\ Cardinality(DOMAIN commits) =
           Len(created) + (IF pc[1] = "update_head" THEN 1 ELSE 0)

\* C18 witness: two successive create_version calls returned with the same
\* text, configuration and timestamp: two commits, one the parent of the
\* other
FreshCommitWitness ==
    /\ Len(created) = 2
    /\ pc[1] = "idle"
    /\ created[1].text = created[2].text
    /\ load_commit(created[1].id).config = load_commit(created[2].id).config
    /\ load_commit(created[1].id).timestamp
           = load_commit(created[2].id).timestamp
    /\ created[1].id # created[2].id
    /\ Cardinality(DOMAIN commits) = 2
    /\ load_commit(created[2].id).parent = created[1].id

\* C19: integrity under two concurrent writers.  In every state of every
\* interleaving of the file reads and writes of two create_version calls,
\* HEAD is empty or names a stored commit, every stored commit names a
\* stored object and a parent that is None or stored, every stored object
\* is keyed by the hash of its content, and the chain from HEAD ends at a
\* commit with parent None without meeting a commit twice; this holds
\* although a payload can be written twice and a commit can be left off the
\* chain.
ConcurrentIntegrity ==
    /\ get_head = None \/ get_head \in DOMAIN commits
    /\ \A commit_id \in DOMAIN commits :
          /\ load_commit(commit_id).object_hash \in DOMAIN objects
          /\ load_commit(commit_id).parent \in DOMAIN commits \cup {None}
    /\ \A object_hash \in DOMAIN objects :
          object_hash = hash_content(load_object(object_hash))
    /\ NoRepeat(HeadChain)
    /\ Len(HeadChain) <= Cardinality(DOMAIN commits)
    /\ HeadChain # <<>> =>
          load_commit(HeadChain[Len(HeadChain)]).parent = None

\* C19 witness: two overlapping calls with the same processed text both
\* wrote the payload and both wrote a commit with parent None; HEAD names one
\* of the two and the other is on no chain
ConcurrentIntegrityWitness ==
    /\ pc[1] = "idle" /\ pc[2] = "idle"
    /\ local[1].status = "ok" /\ local[2].status = "ok"
    /\ local[1].wrote_object /\ local[2].wrote_object
    /\ local[1].object_hash = local[2].object_hash
    /\ ~NoRepeat(obj_writes)
    /\ Cardinality(DOMAIN objects) = 1
    /\ Cardinality(DOMAIN commits) = 2
    /\ Len(HeadChain) = 1

====
